---------------------------- MODULE Spec2Model ----------------------------
(***************************************************************************)
(* A model of the streaming shard pipeline of src/training/data.py:         *)
(* shard sizing (get_dataset_size, sample_prop), per-sample preprocessing   *)
(* (preprocess), pipeline construction and epoch reconciliation             *)
(* (get_wds_dataset) and the per-worker batch stream the constructed        *)
(* webdataset pipeline produces.                                            *)
(***************************************************************************)
EXTENDS Integers, Sequences, FiniteSets, TLC

VARIABLES
    call,       \* the function call under way: its name and its arguments
    ret,        \* what the call returned or raised ("pending" before it ran)
    run,        \* the configuration of the run whose pipeline is iterated
    claimed,    \* per (node, worker): the shards its pipeline copy was handed
    status,     \* one worker's batch stream: running, stopped or raised
    passes,     \* the passes over the pipeline begun so far (detshuffle.epoch + 1)
    stage,      \* "read" within a pass, "idle" between passes
    src,        \* the records of the pass not yet read from the archives
    buf,        \* the samples the sample shuffle holds in its buffer
    batch,      \* the list batched is filling
    sizes,      \* the sizes of the batches yielded to the consumer, in order
    count,      \* per sample: how many times it was yielded in a batch
    assigned,   \* the samples of the shards handed to this worker so far
    discarded,  \* samples batched dropped at the end of a pass
    logged      \* warnings log_and_continue wrote

callVars == <<call, ret>>

partVars == <<run, claimed>>

streamVars == <<status, passes, stage, src, buf, batch, sizes, count,
                assigned, discarded, logged>>

vars == <<call, ret, run, claimed, status, passes, stage, src, buf, batch, sizes,
          count, assigned, discarded, logged>>

\* ------------------------------------------------------------------------
\* Generic helpers
\* ------------------------------------------------------------------------

Range(s) == {s[i] : i \in DOMAIN s}

RECURSIVE SumSeq(_)
SumSeq(s) == IF s = <<>> THEN 0 ELSE Head(s) + SumSeq(Tail(s))

\* Python's a[start:stop] for 0 <= start, 0 <= stop (both clamped to len(a)),
\* with 0-based bounds, on a 1-based sequence.
Min(a, b) == IF a < b THEN a ELSE b

Max(a, b) == IF a < b THEN b ELSE a

PySlice(a, start, stop) ==
    LET lo == Min(start, Len(a))
        hi == Min(stop, Len(a))
    IN  IF hi <= lo THEN <<>> ELSE SubSeq(a, lo + 1, hi)

Pending == [tag |-> "pending"]

\* no call is under way
NoCall == call = [op |-> "none"] /\ ret = Pending

\* no pipeline is iterated
NoStream ==
    /\ status = "none" /\ passes = 0 /\ stage = "idle"
    /\ src = <<>> /\ buf = {} /\ batch = <<>> /\ sizes = <<>>
    /\ count = <<>> /\ assigned = {} /\ discarded = 0 /\ logged = 0

NoRun == run = [kind |-> "none"] /\ claimed = <<>> /\ NoStream

\* ------------------------------------------------------------------------
\* Epoch reconciliation: get_wds_dataset, the is_train branch (lines 341-349)
\* ------------------------------------------------------------------------

PlanMaxSamples == 8
PlanMaxBatch == 3
PlanMaxNodes == 3
PlanMaxWorkers == 3

\* math.floor(a / b): the slip math.ceil -> math.floor
FloorDiv(a, b) == a \div b

\* math.ceil(a / b) for integers a >= 0, b >= 1
CeilDiv(a, b) == (a + b - 1) \div b

EpochPlan(num_samples, batch_size, world_size, workers) ==
    LET global_batch_size == batch_size * world_size
        num_batches0 == CeilDiv(num_samples, global_batch_size)
        num_workers == Max(1, workers)
        num_worker_batches == CeilDiv(num_batches0, num_workers)
        num_batches == num_worker_batches * num_workers
    IN  [tag |-> "plan",
         global_batch_size |-> global_batch_size,
         num_workers |-> num_workers,
         num_worker_batches |-> num_worker_batches,
         num_batches |-> num_batches,
         num_samples |-> num_batches * global_batch_size]

\* the evaluation branch (line 352): num_batches = ceil(num_samples / batch_size)
EvalNumBatches(num_samples, batch_size) == CeilDiv(num_samples, batch_size)

InitPlan ==
    /\ call \in [op : {"epoch_plan"},
                 num_samples : 1..PlanMaxSamples,
                 batch_size : 1..PlanMaxBatch,
                 world_size : 1..PlanMaxNodes,
                 workers : 0..PlanMaxWorkers]
    /\ ret = Pending
    /\ NoRun

Reconcile ==
    /\ call.op = "epoch_plan"
    /\ ret.tag = "pending"
    /\ ret' = EpochPlan(call.num_samples, call.batch_size, call.world_size, call.workers)
    /\ UNCHANGED <<call, partVars, streamVars>>

NextPlan == Reconcile

SpecPlan == InitPlan /\ [][NextPlan]_vars

\* C3: the per-worker batch count times the worker count (0 counted as 1)
\* times the global batch size covers totalSamples; num_batches is the
\* per-worker count times the worker count, hence divisible by it; and the
\* reported num_samples is num_batches times the global batch size.
C3_EpochReconciliation ==
    ret.tag = "plan" =>
        LET nw == IF call.workers = 0 THEN 1 ELSE call.workers
            gbs == call.batch_size * call.world_size
        IN  /\ ret.num_worker_batches * nw * gbs >= call.num_samples
            /\ ret.num_batches = ret.num_worker_batches * nw
            /\ ret.num_batches % nw = 0
            /\ ret.num_samples = ret.num_batches * gbs

\* a plan was computed for a sample count that is no multiple of the global
\* batch size, with several workers that do not divide the batch count
C3_Witness ==
    /\ ret.tag = "plan"
    /\ call.workers = 2
    /\ call.num_samples % ret.global_batch_size # 0
    /\ ret.num_samples > call.num_samples
    /\ CeilDiv(call.num_samples, ret.global_batch_size) % 2 = 1

\* ------------------------------------------------------------------------
\* Sample preprocessing: preprocess (lines 198-255)
\* ------------------------------------------------------------------------

MaxWave == 5
MaxTarget == 3

AudioExt == "flac"

TextExt == "json"

RecordKeys == {"flac", "000001.flac", "json", "000001.json"}

\* Python's `ext in k` on the key strings above (substring test)
KeyContains(ext, k) ==
    \/ ext = "flac" /\ k \in {"flac", "000001.flac"}
    \/ ext = "json" /\ k \in {"json", "000001.json"}

\* lines 211-219: a key that contains an extension without being it is
\* renamed to the extension; the other keys stay
RenameKeys(keys) ==
    {IF KeyContains(AudioExt, k) /\ AudioExt # k THEN AudioExt
     ELSE IF KeyContains(TextExt, k) /\ TextExt # k THEN TextExt
     ELSE k : k \in keys}

Zeros(n) == [i \in 1..n |-> 0]

\* lines 226-241: random clip if too long, zero padding otherwise.
\* idx is np.random.randint(0, overflow + 1), coin is np.random.rand() > 0.5
LengthNormalize(audio_data, max_len, idx, coin) ==
    LET n == Len(audio_data)
    IN  IF n > max_len
        THEN IF coin
             THEN PySlice(audio_data, idx, idx + max_len)
             ELSE PySlice(audio_data, n + 1 - idx - max_len, n + 1 - idx)
        ELSE audio_data \o Zeros(max_len - n)

\* the whole of preprocess: what it returns, or the exception it raises
Preprocess(c) ==
    LET keys == RenameKeys(c.keys)
    IN  IF AudioExt \notin keys THEN [tag |-> "raise", exn |-> "KeyError"]
        ELSE IF ~c.audio_ok THEN [tag |-> "raise", exn |-> "AudioDecodeError"]
        ELSE IF TextExt \notin keys THEN [tag |-> "raise", exn |-> "KeyError"]
        ELSE IF ~c.text_ok THEN [tag |-> "raise", exn |-> "JSONDecodeError"]
        ELSE [tag |-> "sample",
              waveform |-> LengthNormalize(c.audio, c.max_len, c.idx, c.coin),
              keys |-> (keys \ {AudioExt, TextExt})
                        \cup {"waveform", "raw_text", "text", "audio_name", "text_name"}]

Waveforms == {[i \in 1..n |-> i] : n \in 0..MaxWave}

InitPre ==
    /\ \E audio \in Waveforms, max_len \in 1..MaxTarget :
         LET overflow == Len(audio) - max_len
         IN  call \in [op : {"preprocess"},
                       keys : SUBSET RecordKeys,
                       audio_ok : BOOLEAN,
                       text_ok : BOOLEAN,
                       audio : {audio},
                       max_len : {max_len},
                       idx : IF overflow > 0 THEN 0..overflow ELSE {0},
                       coin : IF overflow > 0 THEN BOOLEAN ELSE {FALSE}]
    /\ ret = Pending
    /\ NoRun

MapPreprocess ==
    /\ call.op = "preprocess"
    /\ ret.tag = "pending"
    /\ ret' = Preprocess(call)
    /\ UNCHANGED <<call, partVars, streamVars>>

NextPre == MapPreprocess

SpecPre == InitPre /\ [][NextPre]_vars

\* s is a contiguous run of a, of length n
IsWindow(s, a, n) ==
    /\ Len(s) = n
    /\ \E start \in 1..Len(a) : start + n - 1 <= Len(a) /\ s = SubSeq(a, start, start + n - 1)

\* C4: the waveform preprocess returns has length exactly max_len; a shorter
\* input comes back followed by zeros; a longer input comes back as a
\* contiguous window of max_len samples, for every offset and either branch.
C4_LengthNormalization ==
    ret.tag = "sample" =>
        LET n == Len(call.audio)
            L == call.max_len
        IN  /\ Len(ret.waveform) = L
            /\ n < L => ret.waveform = call.audio \o Zeros(L - n)
            /\ n > L => IsWindow(ret.waveform, call.audio, L)


\* ------------------------------------------------------------------------
\* Shard sizing: get_dataset_size (lines 62-101), sample_prop (lines 176-195)
\* ------------------------------------------------------------------------

MaxList == 2

Dirs == {"d1", "d2"}

\* shard patterns (base names); the last one is a brace pattern
Pats == {"a.tar", "b.tar", "{a,b}.tar"}

\* a shard path or pattern: os.path.dirname and os.path.basename of it
ShardPaths == [dir : Dirs, pat : Pats]

\* braceexpand.braceexpand on the base names above
BraceExpand(pat) ==
    IF pat = "{a,b}.tar" THEN <<"a.tar", "b.tar">> ELSE <<pat>>

\* where a sizes.json can be: beside the shards of a directory, at the
\* explicitly given path or URL, or in the working directory (downloaded)
SizeFiles == Dirs \cup {"explicit", "cwd"}

\* the content of a sizes.json: "none" is no file, "partial" lacks b.tar
ManifestEntries(loc, variant) ==
    LET full == CASE loc = "d1" -> [k \in {"a.tar", "b.tar"} |-> IF k = "a.tar" THEN 100 ELSE 150]
                  [] loc = "d2" -> [k \in {"a.tar", "b.tar"} |-> IF k = "a.tar" THEN 7 ELSE 9]
                  [] OTHER -> [k \in {"a.tar", "b.tar"} |-> IF k = "a.tar" THEN 1 ELSE 2]
    IN  IF variant = "full" THEN full ELSE [k \in {"a.tar"} |-> full[k]]

NoManifest == [exists |-> FALSE, entries |-> <<>>]

ManifestFile(loc, variant) ==
    IF variant = "none" THEN NoManifest
    ELSE [exists |-> TRUE, entries |-> ManifestEntries(loc, variant)]

NoLenFile == [exists |-> FALSE, value |-> 0]

\* the file systems considered: sizes.json per place, __len__ per directory
FileSystems ==
    {[sizes |-> [loc \in SizeFiles |->
                    CASE loc = "d1" -> ManifestFile(loc, v1)
                      [] loc = "d2" -> ManifestFile(loc, v2)
                      [] loc = "explicit" -> ManifestFile(loc, ve)
                      [] OTHER -> NoManifest],
      len |-> [d \in Dirs |-> IF d = "d1" THEN l1 ELSE l2]] :
        v1 \in {"none", "full", "partial"}, v2 \in {"none", "full", "partial"},
        ve \in {"none", "full"},
        l1 \in {NoLenFile, [exists |-> TRUE, value |-> 0], [exists |-> TRUE, value |-> 5]},
        l2 \in {NoLenFile, [exists |-> TRUE, value |-> 5]}}

Raise(exn) == [tag |-> "raise", exn |-> exn]

\* lines 63-70: a remote manifest is downloaded to ./sizes.json, from the
\* given URL or from beside shards[0]; wget raises when there is none
Download(fs, shards, is_list, sizefilepath_) ==
    LET from == IF sizefilepath_ # "None" THEN sizefilepath_
                ELSE IF is_list THEN shards[1].dir
                ELSE "cwd"  \* shards[0] of a string is its first character
        got == IF from = "cwd" THEN NoManifest ELSE fs.sizes[from]
    IN  [ok |-> got.exists, fs |-> [fs EXCEPT !.sizes["cwd"] = got]]

\* lines 80, 86: sum([int(sizes[os.path.basename(shard)]) for shard in shards_list])
ManifestTotal(manifest, shards_list) ==
    IF \E i \in DOMAIN shards_list : shards_list[i] \notin DOMAIN manifest.entries
    THEN Raise("KeyError")
    ELSE [tag |-> "size",
          total_size |-> SumSeq([i \in DOMAIN shards_list |-> manifest.entries[shards_list[i]]]),
          num_shards |-> Len(shards_list)]

\* lines 76-97, 101: one shard pattern (shards is not a list)
GetDatasetSizeOne(fs, shard, sizefilepath_) ==
    LET shards_list == BraceExpand(shard.pat)
        dir_path == shard.dir
    IN  IF sizefilepath_ # "None"
        THEN IF fs.sizes[sizefilepath_].exists
             THEN ManifestTotal(fs.sizes[sizefilepath_], shards_list)
             ELSE Raise("FileNotFoundError")
        ELSE IF fs.sizes[dir_path].exists
             THEN ManifestTotal(fs.sizes[dir_path], shards_list)
        ELSE IF fs.len[dir_path].exists
             THEN [tag |-> "size", total_size |-> fs.len[dir_path].value,
                   num_shards |-> Len(shards_list)]
        ELSE Raise("Exception: Cannot find sizes file for dataset")

\* lines 71-74, 98-99: a list of shards; the first element that raises ends the call
GetDatasetSizeList(fs, shards, sizefilepath_) ==
    LET each == [i \in DOMAIN shards |-> GetDatasetSizeOne(fs, shards[i], sizefilepath_)]
        bad == {i \in DOMAIN shards : each[i].tag = "raise"}
    IN  IF bad # {}
        THEN each[CHOOSE i \in bad : \A j \in bad : i <= j]
        ELSE [tag |-> "size",
              total_size |-> SumSeq([i \in DOMAIN shards |-> each[i].total_size]),
              num_shards |-> Len(shards)]

\* get_dataset_size(shards, sizefilepath_, is_local); is_list is isinstance(shards, list),
\* a single pattern being passed as shards with is_list false
GetDatasetSize(fs, shards, is_list, sizefilepath_, is_local) ==
    LET dl == Download(fs, shards, is_list, sizefilepath_)
        fs1 == IF is_local THEN fs ELSE dl.fs
        path == IF is_local THEN sizefilepath_ ELSE "cwd"
    IN  IF ~is_local /\ ~dl.ok THEN Raise("DownloadError")
        ELSE IF is_list THEN GetDatasetSizeList(fs1, shards, path)
        ELSE GetDatasetSizeOne(fs1, shards, path)

ShardLists == UNION {[1..n -> ShardPaths] : n \in 1..MaxList}

InitSize ==
    /\ \E is_list \in BOOLEAN :
         call \in [op : {"get_dataset_size"},
                   fs : FileSystems,
                   is_list : {is_list},
                   shards : IF is_list THEN ShardLists ELSE ShardPaths,
                   sizefilepath_ : {"None", "explicit"},
                   is_local : BOOLEAN]
    /\ ret = Pending
    /\ NoRun

CallGetDatasetSize ==
    /\ call.op = "get_dataset_size"
    /\ ret.tag = "pending"
    /\ ret' = GetDatasetSize(call.fs, call.shards, call.is_list, call.sizefilepath_, call.is_local)
    /\ UNCHANGED <<call, partVars, streamVars>>

NextSize == CallGetDatasetSize

SpecSize == InitSize /\ [][NextSize]_vars

\* the manifest get_dataset_size reads for one pattern of the call
ManifestFor(c, shard) ==
    IF ~c.is_local
    THEN c.fs.sizes[IF c.sizefilepath_ # "None" THEN c.sizefilepath_ ELSE c.shards[1].dir]
    ELSE IF c.sizefilepath_ # "None" THEN c.fs.sizes[c.sizefilepath_]
    ELSE c.fs.sizes[shard.dir]

Covered(c, shard) ==
    /\ ManifestFor(c, shard).exists
    /\ Range(BraceExpand(shard.pat)) \subseteq DOMAIN ManifestFor(c, shard).entries

ExpandedTotal(c, shard) ==
    LET m == ManifestFor(c, shard).entries
        l == BraceExpand(shard.pat)
    IN  SumSeq([i \in DOMAIN l |-> m[l[i]]])

\* C9: for one pattern covered by the manifest the result is (sum of the
\* manifest entries of the expanded shards, number of expanded shards); for a
\* list of patterns it is (sum of the elements' sizes, sum of the elements'
\* shard counts).
C9_ManifestTotals ==
    /\ (call.op = "get_dataset_size" /\ ~call.is_list /\ call.is_local /\ Covered(call, call.shards))
         => (ret.tag # "pending"
               => /\ ret.tag = "size"
                  /\ ret.total_size = ExpandedTotal(call, call.shards)
                  /\ ret.num_shards = Len(BraceExpand(call.shards.pat)))
    /\ (call.op = "get_dataset_size" /\ call.is_list
          /\ \A i \in DOMAIN call.shards : Covered(call, call.shards[i]))
         => (ret.tag # "pending"
               => /\ ret.tag = "size"
                  /\ ret.total_size =
                       SumSeq([i \in DOMAIN call.shards |-> ExpandedTotal(call, call.shards[i])])
                  /\ ret.num_shards =
                       SumSeq([i \in DOMAIN call.shards |-> Len(BraceExpand(call.shards[i].pat))]))


\* a single pattern covered by its manifest was sized
C9_SingleWitness ==
    /\ call.op = "get_dataset_size" /\ ~call.is_list /\ call.is_local
    /\ call.shards.pat = "{a,b}.tar"
    /\ ret.tag = "size" /\ ret.total_size = 250 /\ ret.num_shards = 2

\* ---- sample_prop ----

\* proportions are multiples of 1/PropDen; int(len * proportion) is the integer
\* part of the exact product
PropDen == 4

\* line 180: {basename: dirname}; a later path with the same base name
\* overwrites the earlier one
FilePathDict(inputs) ==
    [k \in {inputs[i].pat : i \in DOMAIN inputs} |->
        inputs[CHOOSE i \in DOMAIN inputs :
                  /\ inputs[i].pat = k
                  /\ \A j \in DOMAIN inputs : inputs[j].pat = k => j <= i].dir]

\* line 190: L = int(len(file_path_dict) * proportion)
SampleCount(file_path_dict, prop_num) ==
    (Cardinality(DOMAIN file_path_dict) * prop_num) \div PropDen

\* random.sample(keys, L): the sequences of L distinct keys
RandomSamples(keys, L) ==
    {sk \in [1..L -> keys] : \A i, j \in 1..L : sk[i] = sk[j] => i = j}

\* lines 183-195 once subkeys is drawn: the tuple returned, or the exception
SamplePropWith(fs, sizefile, inputs, prop_num, is_local, subkeys) ==
    LET file_path_dict == FilePathDict(inputs)
        dl == Download(fs, inputs, TRUE, sizefile)
        load == IF is_local THEN fs.sizes[sizefile] ELSE dl.fs.sizes["cwd"]
        L == Len(subkeys)
    IN  IF ~is_local /\ ~dl.ok THEN Raise("DownloadError")
        ELSE IF ~load.exists THEN Raise("FileNotFoundError")
        ELSE IF \E i \in 1..L : subkeys[i] \notin DOMAIN load.entries THEN Raise("KeyError")
        ELSE [tag |-> "prop",
              size |-> SumSeq([i \in 1..L |-> load.entries[subkeys[i]]]),
              L |-> L,
              shards |-> [i \in 1..L |-> [dir |-> file_path_dict[subkeys[i]], pat |-> subkeys[i]]],
              sizes |-> [k \in Range(subkeys) |-> load.entries[k]]]

InitProp ==
    /\ call \in [op : {"sample_prop"},
                 fs : {f \in FileSystems : \A d \in Dirs : ~f.len[d].exists},
                 sizefile : {"d1", "d2", "explicit"},
                 inputs : {l \in ShardLists : \A i, j \in DOMAIN l : l[i] = l[j] => i = j},
                 proportion : 0..PropDen,
                 is_local : BOOLEAN]
    /\ ret = Pending
    /\ NoRun

CallSampleProp ==
    /\ call.op = "sample_prop"
    /\ ret.tag = "pending"
    /\ \E subkeys \in RandomSamples(DOMAIN FilePathDict(call.inputs),
                                    SampleCount(FilePathDict(call.inputs), call.proportion)) :
         ret' = SamplePropWith(call.fs, call.sizefile, call.inputs, call.proportion,
                               call.is_local, subkeys)
    /\ UNCHANGED <<call, partVars, streamVars>>

NextProp == CallSampleProp

SpecProp == InitProp /\ [][NextProp]_vars

\* C10: sample_prop returns exactly floor(N * p) distinct shards of the input
\* list, N being the length of the list, each one of the input paths, with
\* the sum of their manifest entries and the size map of exactly those shards.
C10_ProportionalSample ==
    ret.tag = "prop" =>
        LET N == Len(call.inputs)
            want == (N * call.proportion) \div PropDen
            manifest == call.fs.sizes[call.sizefile].entries
        IN  /\ ret.L = want
            /\ Len(ret.shards) = want
            /\ \A i, j \in DOMAIN ret.shards : ret.shards[i] = ret.shards[j] => i = j
            /\ Range(ret.shards) \subseteq Range(call.inputs)
            /\ ret.size = SumSeq([i \in DOMAIN ret.shards |-> manifest[ret.shards[i].pat]])
            /\ DOMAIN ret.sizes = {ret.shards[i].pat : i \in DOMAIN ret.shards}
            /\ \A k \in DOMAIN ret.sizes : ret.sizes[k] = manifest[k]


\* ------------------------------------------------------------------------
\* Pipeline construction: get_wds_dataset (lines 259-374)
\* ------------------------------------------------------------------------

\* lines 302-338: the stages of the pipeline, in order
Stages(is_train) ==
    IF is_train
    THEN <<"SimpleShardList", "detshuffle", "split_by_node", "split_by_worker",
           "tarfile_to_samples", "shuffle", "map", "to_tuple", "batched">>
    ELSE <<"SimpleShardList", "split_by_worker", "tarfile_to_samples",
           "map", "to_tuple", "batched">>

\* partial batches in training too: the slip partial=True
BatchedPartialAlways(is_train) == TRUE

\* the flag inverted: the slip partial=is_train
BatchedPartialInverted(is_train) == is_train

\* line 337: wds.batched(args.batch_size, partial=not is_train)
BatchedPartial(is_train) == ~is_train

\* lines 276-277: is_local ("None", "True" or "False") after the default from
\* args.remotedata; only "True" is truthy in `if not is_local`
ResolveIsLocal(is_local, remotedata) ==
    IF is_local = "None" /\ remotedata # "None"
    THEN (IF remotedata = "True" THEN "False" ELSE "True")
    ELSE is_local

\* lines 292-300 and 340-374, from the resolved size on
Finish(c, num_samples0, input_shards) ==
    LET fallback == IF c.is_train THEN c.train_num_samples ELSE c.val_num_samples
        num_samples == IF num_samples0 = 0 THEN fallback ELSE num_samples0
        plan == EpochPlan(num_samples, c.batch_size, c.world_size, c.workers)
    IN  IF c.is_train /\ num_samples = 0
        THEN Raise("RuntimeError: number of dataset samples must be specified")
        ELSE [tag |-> "dataloader",
              is_train |-> c.is_train,
              input_shards |-> input_shards,
              stages |-> Stages(c.is_train),
              partial |-> BatchedPartial(c.is_train),
              with_epoch |-> IF c.is_train THEN plan.num_worker_batches ELSE 0,
              num_batches |-> IF c.is_train THEN plan.num_batches
                              ELSE EvalNumBatches(num_samples, c.batch_size),
              num_samples |-> IF c.is_train THEN plan.num_samples ELSE num_samples]

\* get_wds_dataset once sample_prop's random draw (subkeys) is fixed
GetWdsDatasetWith(c, subkeys) ==
    LET is_local == ResolveIsLocal(c.is_local, c.remotedata) = "True"
        sizefilepath == IF c.sizefilepath_ # "None" THEN c.sizefilepath_
                        ELSE c.input_shards[1].dir
        sized == IF c.proportion # PropDen
                 THEN SamplePropWith(c.fs, sizefilepath, c.input_shards, c.proportion,
                                     is_local, subkeys)
                 ELSE GetDatasetSize(c.fs, c.input_shards, TRUE, c.sizefilepath_, is_local)
    IN  IF sized.tag = "raise" THEN sized
        ELSE IF sized.tag = "prop" THEN Finish(c, sized.size, sized.shards)
        ELSE Finish(c, sized.total_size, c.input_shards)

BuildFileSystems ==
    {f \in FileSystems :
        /\ ~f.sizes["d2"].exists /\ ~f.len["d2"].exists
        /\ f.sizes["d1"] \in {NoManifest, ManifestFile("d1", "full")}}

InitBuild ==
    /\ \E loc \in {<<"None", "None">>, <<"None", "False">>, <<"None", "True">>, <<"True", "None">>} :
         call \in [op : {"get_wds_dataset"},
                   fs : BuildFileSystems,
                   is_train : BOOLEAN,
                   input_shards : {l \in ShardLists : \A i \in DOMAIN l : l[i].dir = "d1"},
                   proportion : {2, PropDen},
                   sizefilepath_ : {"None", "explicit"},
                   is_local : {loc[1]},
                   remotedata : {loc[2]},
                   train_num_samples : {0, 3},
                   val_num_samples : {0, 3},
                   batch_size : {2},
                   world_size : {2},
                   workers : {0, 2}]
    /\ ret = Pending
    /\ NoRun

CallGetWdsDataset ==
    /\ call.op = "get_wds_dataset"
    /\ ret.tag = "pending"
    /\ \E subkeys \in (IF call.proportion # PropDen
                       THEN RandomSamples(DOMAIN FilePathDict(call.input_shards),
                                          SampleCount(FilePathDict(call.input_shards),
                                                      call.proportion))
                       ELSE {<<>>}) :
         ret' = GetWdsDatasetWith(call, subkeys)
    /\ UNCHANGED <<call, partVars, streamVars>>

NextBuild == CallGetWdsDataset

SpecBuild == InitBuild /\ [][NextBuild]_vars

\* no sizes.json beside the shards or at the given path, and no __len__ file
NoSizeInfo(c) ==
    /\ \A loc \in SizeFiles : ~c.fs.sizes[loc].exists
    /\ \A d \in Dirs : ~c.fs.len[d].exists

\* C6: with neither a manifest nor a fallback count file, building the
\* training pipeline fails with an error, while building the evaluation
\* pipeline succeeds with num_samples = val_num_samples or 0.
C6_MissingSizeInfo ==
    (call.op = "get_wds_dataset" /\ NoSizeInfo(call) /\ ret.tag # "pending") =>
        IF call.is_train
        THEN ret.tag = "raise"
        ELSE ret.tag = "dataloader" /\ ret.num_samples = call.val_num_samples


\* ------------------------------------------------------------------------
\* Shard shuffle and partition: the stages of lines 302-308, run by the copy
\* of the pipeline each (node, worker) holds
\* ------------------------------------------------------------------------

PartMaxShards == 3
PartMaxNodes == 2
PartMaxWorkers == 2

\* line 171
SHARD_SHUFFLE_SIZE == 2000
\* line 172
SHARD_SHUFFLE_INITIAL == 500
\* line 173
SAMPLE_SHUFFLE_SIZE == 5000
\* line 174
SAMPLE_SHUFFLE_INITIAL == 1000

\* the shuffle stages' pick: k = rng.randint(0, len(buf) - 1); the sample at
\* k is returned and the last one takes its place
Pick(held, k) ==
    LET n == Len(held)
    IN  [sample |-> held[k + 1],
         rest |-> [i \in 1..(n - 1) |-> IF i = k + 1 THEN held[n] ELSE held[i]]]

\* the bounded-buffer shuffle of detshuffle and shuffle: data is what is
\* left upstream, out what was yielded; rng[i] is the i-th randint drawn
RECURSIVE ShuffleRun(_, _, _, _, _, _)
ShuffleRun(data, held, out, rng, bufsize, initial) ==
    IF data # <<>>
    THEN LET held1 == Append(held, Head(data))
             more == Len(held1) < bufsize /\ Tail(data) # <<>>
             held2 == IF more THEN Append(held1, Head(Tail(data))) ELSE held1
             rest == IF more THEN Tail(Tail(data)) ELSE Tail(data)
         IN  IF Len(held2) >= Min(initial, bufsize)
             THEN LET p == Pick(held2, rng[Len(out) + 1] % Len(held2))
                  IN  ShuffleRun(rest, p.rest, Append(out, p.sample), rng, bufsize, initial)
             ELSE ShuffleRun(rest, held2, out, rng, bufsize, initial)
    ELSE IF held # <<>>
    THEN LET p == Pick(held, rng[Len(out) + 1] % Len(held))
         IN  ShuffleRun(data, p.rest, Append(out, p.sample), rng, bufsize, initial)
    ELSE out

\* line 306: wds.detshuffle(bufsize, initial, seed=args.seed); rng is the
\* stream random.Random((seed, epoch)) yields, the same in every copy
DetShuffle(shards, rng) ==
    ShuffleRun(shards, <<>>, <<>>, rng, SHARD_SHUFFLE_SIZE, SHARD_SHUFFLE_INITIAL)

\* itertools.islice(source, start, None, step)
ISlice(source, start, step) ==
    LET n == IF Len(source) > start THEN (Len(source) - start - 1) \div step + 1 ELSE 0
    IN  [j \in 1..n |-> source[start + (j - 1) * step + 1]]

\* line 307: wds.split_by_node
SplitByNode(source, rank, world_size) ==
    IF world_size > 1 THEN ISlice(source, rank, world_size) ELSE source

\* the slip of a 1-based worker id
SplitByWorkerOneBased(source, worker, num_workers) ==
    IF num_workers > 1 THEN ISlice(source, worker + 1, num_workers) ELSE source

\* lines 308, 319: wds.split_by_worker
SplitByWorker(source, worker, num_workers) ==
    IF num_workers > 1 THEN ISlice(source, worker, num_workers) ELSE source

\* lines 304-322: the shards one copy of the pipeline reads in one pass
AssignedShards(is_train, shards, rng, rank, world_size, worker, num_workers) ==
    IF is_train
    THEN SplitByWorker(SplitByNode(DetShuffle(shards, rng), rank, world_size),
                       worker, num_workers)
    ELSE SplitByWorker(shards, worker, num_workers)

\* the randint streams that shuffle n items absorbed at once
RngStreams(n) == {r \in [1..n -> 0..(n - 1)] : \A i \in 1..n : r[i] <= n - i}

Pairs(r) == (0..(r.world_size - 1)) \X (0..(r.num_workers - 1))

InitPart ==
    /\ NoCall
    /\ \E n \in 0..PartMaxShards :
         run \in [kind : {"partition"},
                  shards : {[i \in 1..n |-> i]},
                  world_size : 1..PartMaxNodes,
                  num_workers : 1..PartMaxWorkers,
                  rng : RngStreams(n)]
    /\ claimed = <<>>
    /\ NoStream

\* the copy of the pipeline in worker `worker` of node `rank` starts its pass
StartPass(rank, worker) ==
    /\ run.kind = "partition"
    /\ <<rank, worker>> \in Pairs(run)
    /\ <<rank, worker>> \notin DOMAIN claimed
    /\ claimed' = [p \in DOMAIN claimed \cup {<<rank, worker>>} |->
                     IF p = <<rank, worker>>
                     THEN AssignedShards(TRUE, run.shards, run.rng, rank, run.world_size,
                                         worker, run.num_workers)
                     ELSE claimed[p]]
    /\ UNCHANGED <<run, callVars, streamVars>>

NextPart == \E rank \in 0..(PartMaxNodes - 1), worker \in 0..(PartMaxWorkers - 1) : StartPass(rank, worker)

SpecPart == InitPart /\ [][NextPart]_vars

MaxShards == 2
MaxNodes == 2
MaxWorkers == 2
MaxBatch == 2

\* the passes DataPipeline.iterator makes once with_epoch set its repetitions
\* (sys.maxsize in the library; a pipeline without with_epoch makes one)
Repetitions == 2

\* a record of a shard: "ok", "tar_error" (the archive entry cannot be read:
\* tarfile_to_samples calls its handler) or "bad_sample" (preprocess raises on
\* it: a field is missing, the audio or the text JSON cannot be decoded)
Kinds == {"ok", "tar_error", "bad_sample"}

\* the archives the shards are drawn from: intact ones of one and two
\* records, one whose last record preprocess cannot take, and one with an
\* unreadable entry before a good record
Archives == {<<"ok">>, <<"ok", "ok">>, <<"ok", "bad_sample">>, <<"tar_error", "ok">>}

Flatten(shards, ids) ==
    LET F[k \in 0..Len(ids)] ==
            IF k = 0 THEN <<>>
            ELSE F[k - 1] \o [j \in 1..Len(shards[ids[k]]) |-> <<ids[k], j>>]
    IN  F[Len(ids)]

KindOf(s) == run.shards[s[1]][s[2]]

SampleIds(shards) == UNION {{<<i, j>> : j \in DOMAIN shards[i]} : i \in DOMAIN shards}

Corpora ==
    UNION {[1..n -> Archives] : n \in 1..MaxShards}

\* lines 165-168: log_and_continue returns True, so the reader goes on
LogAndContinue == TRUE

\* line 310: the handler given to tarfile_to_samples
TarHandlerContinues == LogAndContinue

\* line 324: wds.map is given no handler, so its default re-raises
MapHandlerContinues == FALSE

\* lines 198-255 on a record of the archive: whether preprocess raises
PreprocessRaises(kind) == kind = "bad_sample"

\* the passes one iteration of the data loader can make over the pipeline
PassLimit(is_train) == IF is_train THEN Repetitions ELSE 1

InitStream ==
    /\ NoCall
    /\ claimed = <<>>
    /\ \E is_train \in BOOLEAN, shards \in Corpora, batch_size \in 1..MaxBatch,
          world_size \in 1..MaxNodes, workers \in 0..MaxWorkers :
         LET num_samples == SumSeq([i \in DOMAIN shards |-> Len(shards[i])])
             built == Finish([is_train |-> is_train, train_num_samples |-> 0,
                              val_num_samples |-> 0, batch_size |-> batch_size,
                              world_size |-> world_size, workers |-> workers],
                             num_samples, shards)
         IN  /\ built.tag = "dataloader"
             /\ is_train \/ world_size = 1
             /\ run \in [kind : {"stream"},
                         is_train : {is_train},
                         shards : {shards},
                         batch_size : {batch_size},
                         world_size : {world_size},
                         rank : 0..(world_size - 1),
                         num_workers : {Max(1, workers)},
                         worker : 0..(Max(1, workers) - 1),
                         with_epoch : {built.with_epoch},
                         num_batches : {built.num_batches},
                         num_samples : {built.num_samples}]
             /\ count = [s \in SampleIds(shards) |-> 0]
    /\ status = "running" /\ passes = 0 /\ stage = "idle"
    /\ src = <<>> /\ buf = {} /\ batch = <<>> /\ sizes = <<>>
    /\ assigned = {} /\ discarded = 0 /\ logged = 0

\* DataPipeline.iterator starts a pass: every stage is run anew; rng is what
\* random.Random((seed, epoch)) yields for this pass of detshuffle
BeginPass ==
    /\ run.kind = "stream" /\ status = "running" /\ stage = "idle"
    /\ passes < PassLimit(run.is_train)
    /\ \E rng \in RngStreams(Len(run.shards)) :
         LET ids == AssignedShards(run.is_train, [i \in DOMAIN run.shards |-> i], rng,
                                   run.rank, run.world_size, run.worker, run.num_workers)
         IN  /\ src' = Flatten(run.shards, ids)
             /\ assigned' = assigned \cup Range(Flatten(run.shards, ids))
    /\ passes' = passes + 1
    /\ stage' = "read"
    /\ buf' = {} /\ batch' = <<>>
    /\ UNCHANGED <<status, sizes, count, discarded, logged, callVars, partVars>>

\* batched yields the list b: the consumer gets it; islice ends the stream of
\* a training worker once with_epoch batches were taken
YieldBatch(b) ==
    /\ sizes' = Append(sizes, Len(b))
    /\ count' = [s \in DOMAIN count |->
                    count[s] + Cardinality({i \in DOMAIN b : b[i] = s})]
    /\ status' = IF run.is_train /\ Len(sizes) + 1 >= run.with_epoch
                 THEN "stopped" ELSE status

\* a sample reaches map(preprocess), to_tuple and batched
Deliver(s) ==
    IF PreprocessRaises(KindOf(s)) /\ ~MapHandlerContinues
    THEN /\ status' = "raised"
         /\ UNCHANGED <<batch, sizes, count>>
    ELSE IF PreprocessRaises(KindOf(s))
    THEN UNCHANGED <<status, batch, sizes, count>>
    ELSE IF Len(batch) >= run.batch_size
    THEN /\ YieldBatch(batch)
         /\ batch' = <<s>>
    ELSE /\ batch' = Append(batch, s)
         /\ UNCHANGED <<status, sizes, count>>

\* tarfile_to_samples reads the next record of the worker's shards
ReadRecord ==
    /\ run.kind = "stream" /\ status = "running" /\ stage = "read"
    /\ src # <<>>
    /\ run.is_train => Cardinality(buf) < SAMPLE_SHUFFLE_SIZE
    /\ IF KindOf(Head(src)) = "tar_error"
       THEN /\ logged' = logged + 1
            /\ src' = IF TarHandlerContinues THEN Tail(src) ELSE <<>>
            /\ UNCHANGED <<status, buf, batch, sizes, count>>
       ELSE /\ src' = Tail(src)
            /\ UNCHANGED logged
            /\ IF run.is_train
               THEN /\ buf' = buf \cup {Head(src)}
                    /\ UNCHANGED <<status, batch, sizes, count>>
               ELSE /\ Deliver(Head(src))
                    /\ UNCHANGED buf
    /\ UNCHANGED <<passes, stage, assigned, discarded, callVars, partVars>>

\* the sample shuffle (lines 311-314) yields one buffered sample downstream:
\* the one at a random index of its buffer, once the buffer holds its initial
\* fill or the archives are read through
ShufflePick ==
    /\ run.kind = "stream" /\ status = "running" /\ stage = "read"
    /\ run.is_train
    /\ buf # {}
    /\ src = <<>> \/ Cardinality(buf) >= Min(SAMPLE_SHUFFLE_INITIAL, SAMPLE_SHUFFLE_SIZE)
    /\ \E s \in buf :
         /\ buf' = buf \ {s}
         /\ Deliver(s)
    /\ UNCHANGED <<passes, stage, src, assigned, discarded, logged, callVars, partVars>>

\* the pass is over: batched yields what it holds if that is a full batch, or
\* if partial batches are allowed, and drops it otherwise
EndPass ==
    /\ run.kind = "stream" /\ status = "running" /\ stage = "read"
    /\ src = <<>> /\ buf = {}
    /\ stage' = "idle"
    /\ batch' = <<>>
    /\ IF batch # <<>> /\ (Len(batch) = run.batch_size \/ BatchedPartial(run.is_train))
       THEN /\ YieldBatch(batch)
            /\ UNCHANGED discarded
       ELSE /\ discarded' = discarded + Len(batch)
            /\ UNCHANGED <<status, sizes, count>>
    /\ UNCHANGED <<passes, src, buf, assigned, logged, callVars, partVars>>

\* no pass is left: the stream ends (StopIteration)
Exhaust ==
    /\ run.kind = "stream" /\ status = "running" /\ stage = "idle"
    /\ passes >= PassLimit(run.is_train)
    /\ status' = "stopped"
    /\ UNCHANGED <<passes, stage, src, buf, batch, sizes, count, assigned,
                   discarded, logged, callVars, partVars>>

NextStream == BeginPass \/ ReadRecord \/ ShufflePick \/ EndPass \/ Exhaust

SpecStream == InitStream /\ [][NextStream]_vars


\* C2: a training worker whose stream ends has yielded exactly
\* num_worker_batches batches, whatever its shards hold.
C2_EqualBatchCounts ==
    (run.kind = "stream" /\ run.is_train /\ status = "stopped")
        => Len(sizes) = run.with_epoch

\* C5: a preprocessing failure of one record never reaches the consumer of
\* the batch stream: the record is dropped and the stream goes on.
C5_RecordFailureContained ==
    run.kind = "stream" => status # "raised"

NotTarError(s) == KindOf(s) # "tar_error"

\* the records an evaluation worker's archives yield, in stream order
EvalStream ==
    SelectSeq(Flatten(run.shards,
                      AssignedShards(FALSE, [i \in DOMAIN run.shards |-> i], <<>>,
                                     run.rank, run.world_size, run.worker, run.num_workers)),
              NotTarError)

\* C7 as claimed: when the stream of a worker ends, every non-corrupt sample
\* of the shards handed to it was yielded at least once, and more than once
\* only in training.
C7_EverySampleEmitted ==
    (run.kind = "stream" /\ status = "stopped") =>
        /\ \A s \in assigned : KindOf(s) = "ok" => count[s] >= 1
        /\ ~run.is_train => \A s \in DOMAIN count : count[s] <= 1

\* C7 as amended: only non-corrupt samples of shards handed to the worker are
\* yielded; a sample is yielded at most once per pass (so at most once in
\* evaluation); in evaluation the samples yielded are, once each, the leading
\* ones of the worker's stream, all of them when the stream ends without an
\* error, those of the batches yielded before it when preprocess raises.
C7_Emission ==
    run.kind = "stream" =>
        /\ \A s \in DOMAIN count : count[s] > 0 => s \in assigned /\ KindOf(s) = "ok"
        /\ \A s \in DOMAIN count : count[s] <= (IF run.is_train THEN passes ELSE 1)
        /\ ~run.is_train =>
             /\ \A i \in DOMAIN EvalStream :
                  count[EvalStream[i]] = (IF i <= SumSeq(sizes) THEN 1 ELSE 0)
             /\ status = "stopped" => SumSeq(sizes) = Len(EvalStream)

\* a training worker took its with_epoch batches and stopped while a
\* non-corrupt sample of its shards had not been yielded
C7_Witness ==
    /\ run.kind = "stream" /\ run.is_train /\ status = "stopped"
    /\ Len(sizes) = run.with_epoch
    /\ \E s \in assigned : KindOf(s) = "ok" /\ count[s] = 0
    /\ \E s \in assigned : count[s] >= 1

AllFull(is_train) ==
    \A i \in DOMAIN sizes :
        IF is_train \/ i < Len(sizes) THEN sizes[i] = run.batch_size
        ELSE sizes[i] \in 1..run.batch_size

EvalCountReported ==
    ~run.is_train =>
        /\ run.num_batches * run.batch_size >= run.num_samples
        /\ run.num_samples > 0 => (run.num_batches - 1) * run.batch_size < run.num_samples
        /\ run.num_samples = 0 => run.num_batches = 0

\* C8 as claimed: training batches all hold batch_size samples and no
\* trailing group is dropped (it is filled by repetition instead); evaluation
\* batches hold batch_size samples except possibly the last of the stream,
\* which holds 1..batch_size; num_batches of evaluation is ceil(num_samples / B).
C8_FullBatchesNothingDropped ==
    run.kind = "stream" =>
        /\ AllFull(run.is_train)
        /\ run.is_train => discarded = 0
        /\ EvalCountReported

\* C8 as amended: the sizes as claimed; the list batched collects for a
\* training batch holds distinct samples of one pass, batch_size of them when
\* it is yielded, and what batched holds at the end of a pass,
\* fewer than batch_size samples, is dropped rather than filled up.
C8_BatchSizes ==
    run.kind = "stream" =>
        /\ AllFull(run.is_train)
        /\ run.is_train =>
             /\ Len(batch) <= run.batch_size
             /\ \A i, j \in DOMAIN batch : batch[i] = batch[j] => i = j
             /\ discarded <= passes * (run.batch_size - 1)
             /\ stage = "idle" => batch = <<>>
        /\ ~run.is_train => discarded = 0
        /\ EvalCountReported

\* a training worker dropped a trailing group at the end of a pass and
\* reached its batch count with full batches of a later pass
C8_Witness ==
    /\ run.kind = "stream" /\ run.is_train /\ status = "stopped"
    /\ discarded > 0
    /\ Len(sizes) = run.with_epoch
    /\ passes = 2


=============================================================================
